---- MODULE Spec2Model ----
(***************************************************************************)
(* A model of the read-only SQLite query engine of src/src/db.rs:          *)
(* the B-tree traversals (full scan, by-rowid lookup, index equality       *)
(* search), the small-integer decoder and the planner/executor             *)
(* DB::process_query.                                                      *)
(*                                                                         *)
(* TEXT and BLOB values are sequences of byte values.  A page is modelled  *)
(* after cell decoding: its type byte, its cells in cell-pointer order and *)
(* the four bytes read as right_most_pointer.                              *)
(***************************************************************************)
EXTENDS Integers, Sequences, FiniteSets, TLC

VARIABLES
    db,        \* the opened database: [schemas, pages]
    query,     \* the parsed statement handed to process_query (Sql)
    pc,        \* position of the running operation
    idx_info,  \* process_query: Option<IndexInfo> (<<>> is None)
    fields,    \* process_query: field name -> (ind, field), as a sequence
    records,   \* process_query: the Vec<Record> to project
    pos,       \* process_query: index of the next record of the output loop
    out,       \* lines written to stdout so far
    src,       \* the table rows and layout the database file was written from
    arg,       \* input of a traversal or decoder run on its own
    res        \* result of a traversal or decoder run on its own

vars == <<db, query, pc, idx_info, fields, records, pos, out, src, arg, res>>

----------------------------------------------------------------------------
(* Bounds of the model.                                                    *)

\* how many of the sample rowids a table of the query model may use
NumRowIds == 3
\* most rows of a table in the query model
MaxRows == 3
\* most rows of a table B-tree traversed on its own
MaxTreeRows == 5
\* most entries of an index B-tree searched on its own
MaxEntries == 7
\* most bytes of an integer handed to the small-integer decoder
MaxWidth == 4

----------------------------------------------------------------------------
(* Text.                                                                   *)

Min(a, b) == IF a < b THEN a ELSE b

\* byte-wise lexicographic order, the order of Rust's str and [u8]
StrLt(a, b) ==
    \E i \in 1..(Min(Len(a), Len(b)) + 1) :
        /\ \A j \in 1..(i - 1) : a[j] = b[j]
        /\ \/ i > Len(a) /\ i <= Len(b)
           \/ i <= Len(a) /\ i <= Len(b) /\ a[i] < b[i]

RECURSIVE Concat(_)
Concat(ss) == IF ss = <<>> THEN <<>> ELSE Head(ss) \o Concat(Tail(ss))

\* U+FFFD, the replacement character, in UTF-8
Replacement == <<239, 191, 189>>

\* String::from_utf8_lossy on the bytes the model stores: ASCII bytes and an
\* encoded U+FFFD are kept, any other byte is an invalid sequence of its own
\* and becomes U+FFFD.
RECURSIVE from_utf8_lossy(_)
from_utf8_lossy(bytes) ==
    IF bytes = <<>> THEN <<>>
    ELSE IF bytes[1] < 128 THEN <<bytes[1]>> \o from_utf8_lossy(Tail(bytes))
    ELSE IF Len(bytes) >= 3 /\ SubSeq(bytes, 1, 3) = Replacement
         THEN Replacement \o from_utf8_lossy(SubSeq(bytes, 4, Len(bytes)))
    ELSE Replacement \o from_utf8_lossy(Tail(bytes))

\* u64::to_string / usize::to_string: decimal digits, most significant first
RECURSIVE to_string(_)
to_string(n) ==
    IF n < 10 THEN <<48 + n>> ELSE to_string(n \div 10) \o <<48 + (n % 10)>>

\* itertools join("|")
RECURSIVE join(_)
join(ss) ==
    IF ss = <<>> THEN <<>>
    ELSE IF Len(ss) = 1 THEN ss[1]
    ELSE ss[1] \o <<124>> \o join(Tail(ss))

\* str::eq_ignore_ascii_case on the function names the model uses
AsciiUpper(s) == [i \in 1..Len(s) |-> IF s[i] >= 97 /\ s[i] <= 122 THEN s[i] - 32 ELSE s[i]]

eq_ignore_ascii_case(a, b) == AsciiUpper(a) = AsciiUpper(b)

----------------------------------------------------------------------------
(* Small integers.                                                         *)

\* parse_24bit_be_twos_complement: [ok |-> FALSE] is the panic of the `_` arm.
\* Width 3 goes through i32 with a sign byte, width 2 through i16, width 1 is
\* `bytes[0] as i64`, a widening of the unsigned byte.
parse_24bit_be_twos_complement(bytes) ==
    CASE Len(bytes) = 3 ->
            [ok |-> TRUE,
             val |-> (bytes[1] * 65536 + bytes[2] * 256 + bytes[3])
                     - (IF bytes[1] >= 128 THEN 16777216 ELSE 0)]
      [] Len(bytes) = 2 ->
            [ok |-> TRUE,
             val |-> (bytes[1] * 256 + bytes[2])
                     - (IF bytes[1] >= 128 THEN 65536 ELSE 0)]
      [] Len(bytes) = 1 -> [ok |-> TRUE, val |-> bytes[1]]
      [] OTHER -> [ok |-> FALSE, val |-> 0]

\* The bytes the file format stores for an integer column: serial types 8 and
\* 9 hold 0 and 1 in no bytes, the others are big-endian two's complement in
\* the narrowest of 1, 2, 3, 4 bytes.
IntBytes(n, width) ==
    LET u == IF n < 0 THEN n + (IF width = 1 THEN 256
                                ELSE IF width = 2 THEN 65536
                                ELSE IF width = 3 THEN 16777216
                                ELSE 0) ELSE n
    IN  CASE width = 1 -> <<u>>
          [] width = 2 -> <<u \div 256, u % 256>>
          [] width = 3 -> <<u \div 65536, (u \div 256) % 256, u % 256>>
          [] OTHER     -> <<(u \div 16777216) % 256, (u \div 65536) % 256,
                            (u \div 256) % 256, u % 256>>

StoredInt(n) ==
    IF n = 0 \/ n = 1 THEN <<>>
    ELSE IF n >= -128 /\ n <= 127 THEN IntBytes(n, 1)
    ELSE IF n >= -32768 /\ n <= 32767 THEN IntBytes(n, 2)
    ELSE IF n >= -8388608 /\ n <= 8388607 THEN IntBytes(n, 3)
    ELSE IntBytes(n, 4)

----------------------------------------------------------------------------
(* Pages.                                                                  *)

InteriorIndex == 2
InteriorTable == 5
LeafIndex == 10
LeafTable == 13

\* PageHeader::parse with right_most_pointer read on InteriorTable pages only
PageHeader_parse_table_only(page) ==
    IF page.type_byte \notin {InteriorIndex, InteriorTable, LeafIndex, LeafTable}
    THEN [ok |-> FALSE]
    ELSE [ok |-> TRUE,
          page_type |-> page.type_byte,
          number_of_cells |-> Len(page.cells),
          right_most_pointer |->
              IF page.type_byte = InteriorTable THEN <<page.rmp_bytes>> ELSE <<>>]

\* PageHeader::parse: rejects a type byte outside {2, 5, 10, 13};
\* right_most_pointer is Some (a one-element sequence) on interior pages.
PageHeader_parse(page) ==
    IF page.type_byte \notin {InteriorIndex, InteriorTable, LeafIndex, LeafTable}
    THEN [ok |-> FALSE]
    ELSE [ok |-> TRUE,
          page_type |-> page.type_byte,
          number_of_cells |-> Len(page.cells),
          right_most_pointer |->
              IF page.type_byte = InteriorTable \/ page.type_byte = InteriorIndex
              THEN <<page.rmp_bytes>> ELSE <<>>]

\* PageHeader::size
PageHeader_size(header) ==
    IF header.page_type = InteriorIndex \/ header.page_type = InteriorTable
    THEN 12 ELSE 8

\* get_page_header on the page a page number addresses; a page number outside
\* the file is a slice out of range, as fatal as a rejected type byte.
get_page_header(pages, page_number) ==
    IF page_number \notin DOMAIN pages THEN [ok |-> FALSE]
    ELSE PageHeader_parse(pages[page_number])

\* The Record a leaf-table cell decodes to: row_id is the decimal rendering
\* of the cell's rowid, each column is from_utf8_lossy of its bytes.
RecordOf(cell) ==
    [row_id |-> to_string(cell.rowid),
     columns |-> [j \in 1..Len(cell.payload) |-> from_utf8_lossy(cell.payload[j])]]

AllOk(rs) == \A i \in 1..Len(rs) : rs[i].ok

----------------------------------------------------------------------------
(* Full table scan.                                                        *)

\* get_them_records with the subtree of right_most_pointer taken before the
\* subtrees of the cells
RECURSIVE get_them_records_right_first(_, _)
get_them_records_right_first(pages, page_number) ==
    LET page_header == get_page_header(pages, page_number) IN
    IF ~page_header.ok THEN [ok |-> FALSE, recs |-> <<>>]
    ELSE
    LET cells == pages[page_number].cells IN
    IF page_header.page_type = InteriorTable
    THEN LET left == [i \in 1..Len(cells) |->
                         get_them_records_right_first(pages, cells[i].left_child_page_no)]
             right == get_them_records_right_first(pages, page_header.right_most_pointer[1])
         IN  IF AllOk(left) /\ right.ok
             THEN [ok |-> TRUE,
                   recs |-> right.recs \o Concat([i \in 1..Len(cells) |-> left[i].recs])]
             ELSE [ok |-> FALSE, recs |-> <<>>]
    ELSE IF page_header.page_type = LeafTable
    THEN [ok |-> TRUE, recs |-> [i \in 1..Len(cells) |-> RecordOf(cells[i])]]
    ELSE [ok |-> TRUE, recs |-> <<>>]

\* get_them_records: [ok |-> FALSE] is a panic (an unwrap on a bad header).
RECURSIVE get_them_records(_, _)
get_them_records(pages, page_number) ==
    LET page_header == get_page_header(pages, page_number) IN
    IF ~page_header.ok THEN [ok |-> FALSE, recs |-> <<>>]
    ELSE
    LET cells == pages[page_number].cells IN
    IF page_header.page_type = InteriorTable
    THEN LET left == [i \in 1..Len(cells) |->
                         get_them_records(pages, cells[i].left_child_page_no)]
             right == get_them_records(pages, page_header.right_most_pointer[1])
         IN  IF AllOk(left) /\ right.ok
             THEN [ok |-> TRUE,
                   recs |-> Concat([i \in 1..Len(cells) |-> left[i].recs]) \o right.recs]
             ELSE [ok |-> FALSE, recs |-> <<>>]
    ELSE IF page_header.page_type = LeafTable
    THEN [ok |-> TRUE, recs |-> [i \in 1..Len(cells) |-> RecordOf(cells[i])]]
    ELSE [ok |-> TRUE, recs |-> <<>>]

----------------------------------------------------------------------------
(* By-rowid lookup.                                                        *)

\* the first cell whose key is > row_id: the descent with `<` for `<=`
FirstCellAbove(cells, row_id) ==
    IF \E i \in 1..Len(cells) : row_id < cells[i].rowid_key
    THEN CHOOSE i \in 1..Len(cells) :
            /\ row_id < cells[i].rowid_key
            /\ \A j \in 1..(i - 1) : ~(row_id < cells[j].rowid_key)
    ELSE 0

\* the first cell of an interior table page whose key is >= row_id, 0 if none
FirstCellAtLeast(cells, row_id) ==
    IF \E i \in 1..Len(cells) : row_id <= cells[i].rowid_key
    THEN CHOOSE i \in 1..Len(cells) :
            /\ row_id <= cells[i].rowid_key
            /\ \A j \in 1..(i - 1) : ~(row_id <= cells[j].rowid_key)
    ELSE 0

\* the first cell of a leaf table page whose rowid is row_id, 0 if none
FirstCellWithKey(cells, row_id) ==
    IF \E i \in 1..Len(cells) : cells[i].rowid = row_id
    THEN CHOOSE i \in 1..Len(cells) :
            /\ cells[i].rowid = row_id
            /\ \A j \in 1..(i - 1) : cells[j].rowid # row_id
    ELSE 0

\* get_record_by_row_id: [ok |-> FALSE] is a panic (the unreachable!() at the
\* end, or an unwrap on a bad header); path lists the pages visited.
RECURSIVE get_record_by_row_id(_, _, _)
get_record_by_row_id(row_id, pages, page_number) ==
    LET page_header == get_page_header(pages, page_number)
        failed == [ok |-> FALSE, rec |-> <<>>, path |-> <<page_number>>]
    IN
    IF ~page_header.ok THEN failed
    ELSE
    LET cells == pages[page_number].cells IN
    IF page_header.page_type = InteriorTable
    THEN LET i == FirstCellAtLeast(cells, row_id)
             child == IF i = 0 THEN page_header.right_most_pointer[1]
                      ELSE cells[i].left_child_page_no
             sub == get_record_by_row_id(row_id, pages, child)
         IN  [ok |-> sub.ok, rec |-> sub.rec, path |-> <<page_number>> \o sub.path]
    ELSE IF page_header.page_type = LeafTable
    THEN LET i == FirstCellWithKey(cells, row_id)
         IN  IF i = 0 THEN failed
             ELSE [ok |-> TRUE, rec |-> RecordOf(cells[i]), path |-> <<page_number>>]
    ELSE failed

----------------------------------------------------------------------------
(* Index equality search.                                                  *)

SearchFailed(visits) == [ok |-> FALSE, rows |-> <<>>, visits |-> visits]

\* the rowids a leaf index page pushes, cell by cell: the key is compared as
\* stored (key == value.as_bytes()), the rowid is decoded only on a match
RECURSIVE LeafIndexLoop(_, _, _)
LeafIndexLoop(cells, i, value) ==
    IF i > Len(cells) THEN [ok |-> TRUE, rows |-> <<>>]
    ELSE LET key_record == cells[i].payload
             key == key_record[1]
         IN  IF key = value
             THEN LET rowid == parse_24bit_be_twos_complement(key_record[2])
                      rest == LeafIndexLoop(cells, i + 1, value)
                  IN  IF rowid.ok /\ rest.ok
                      THEN [ok |-> TRUE, rows |-> <<rowid.val>> \o rest.rows]
                      ELSE [ok |-> FALSE, rows |-> <<>>]
             ELSE LeafIndexLoop(cells, i + 1, value)

\* parse_page: rows are the rowids pushed on row_collector, in push order;
\* visits are the pages entered, in order; [ok |-> FALSE] is a panic or an
\* error return.  InteriorIndexLoop is the `for cell_pointer` loop of an
\* interior page from cell i on; broke tells that it left through `break`.
RECURSIVE parse_page(_, _, _)
RECURSIVE InteriorIndexLoop(_, _, _, _)
InteriorIndexLoop(pages, cells, i, value) ==
    IF i > Len(cells)
    THEN [ok |-> TRUE, rows |-> <<>>, visits |-> <<>>, broke |-> FALSE]
    ELSE
    LET record == cells[i].payload
        key == from_utf8_lossy(record[1])
    IN
    IF StrLt(key, value)
    THEN InteriorIndexLoop(pages, cells, i + 1, value)
    ELSE
    LET rowid == IF value = key THEN parse_24bit_be_twos_complement(record[2])
                 ELSE [ok |-> TRUE, val |-> 0]
        pushed == IF value = key THEN <<rowid.val>> ELSE <<>>
    IN
    IF ~rowid.ok
    THEN [ok |-> FALSE, rows |-> <<>>, visits |-> <<>>, broke |-> FALSE]
    ELSE
    LET left == parse_page(pages, cells[i].left_child_page_no, value) IN
    IF ~left.ok
    THEN [ok |-> FALSE, rows |-> <<>>, visits |-> left.visits, broke |-> FALSE]
    ELSE IF StrLt(value, key)
    THEN [ok |-> TRUE, rows |-> pushed \o left.rows, visits |-> left.visits,
          broke |-> TRUE]
    ELSE LET rest == InteriorIndexLoop(pages, cells, i + 1, value)
         IN  [ok |-> rest.ok,
              rows |-> IF rest.ok THEN pushed \o left.rows \o rest.rows ELSE <<>>,
              visits |-> left.visits \o rest.visits,
              broke |-> rest.broke]

parse_page(pages, page_number, value) ==
    LET page_header == get_page_header(pages, page_number) IN
    IF ~page_header.ok THEN SearchFailed(<<page_number>>)
    ELSE
    LET cells == pages[page_number].cells IN
    IF page_header.page_type = InteriorIndex
    THEN LET loop == InteriorIndexLoop(pages, cells, 1, value) IN
         IF ~loop.ok THEN SearchFailed(<<page_number>> \o loop.visits)
         ELSE LET right == parse_page(pages, page_header.right_most_pointer[1], value)
              IN  IF ~right.ok
                  THEN SearchFailed(<<page_number>> \o loop.visits \o right.visits)
                  ELSE [ok |-> TRUE,
                        rows |-> loop.rows \o right.rows,
                        visits |-> <<page_number>> \o loop.visits \o right.visits]
    ELSE IF page_header.page_type = LeafIndex
    THEN LET leaf == LeafIndexLoop(cells, 1, value)
         IN  IF leaf.ok
             THEN [ok |-> TRUE, rows |-> leaf.rows, visits |-> <<page_number>>]
             ELSE SearchFailed(<<page_number>>)
    ELSE [ok |-> TRUE, rows |-> <<>>, visits |-> <<page_number>>]

----------------------------------------------------------------------------
(* The file format: how a writer lays rows out in B-tree pages.            *)

\* the key of the interior cell that follows row p of rs: the rowid of row
\* p, or one more when slack asks for it and the next row leaves room
KeyAfter(rs, p, slack) ==
    IF slack = 1 /\ p < Len(rs) /\ rs[p].rowid + 1 < rs[p + 1].rowid
    THEN rs[p].rowid + 1 ELSE rs[p].rowid

\* A table B-tree holding the rows rs left to right, leaf_cap cells a leaf,
\* fanout children an interior page, at most three levels, rooted at page
\* base: the root, then the interior pages below it, then the leaves.
TablePages(rs, leaf_cap, fanout, base, slack) ==
    LET n == Len(rs)
        nLeaves == IF n = 0 THEN 1 ELSE (n + leaf_cap - 1) \div leaf_cap
        nInner == IF nLeaves = 1 THEN 0 ELSE (nLeaves + fanout - 1) \div fanout
        top == IF nInner > 1 THEN 1 ELSE 0
        innerPage(j) == base + top + (j - 1)
        leafPage(k) == base + top + nInner + (k - 1)
        leafEnd(k) == Min(k * leaf_cap, n)
        leafOf(k) ==
            [type_byte |-> LeafTable,
             cells |-> [c \in 1..(leafEnd(k) - (k - 1) * leaf_cap) |->
                          [rowid |-> rs[(k - 1) * leaf_cap + c].rowid,
                           payload |-> rs[(k - 1) * leaf_cap + c].payload]],
             rmp_bytes |-> 0]
        innerEnd(j) == Min(j * fanout, nLeaves)
        innerOf(j) ==
            [type_byte |-> InteriorTable,
             cells |-> [c \in 1..(innerEnd(j) - (j - 1) * fanout - 1) |->
                          [left_child_page_no |-> leafPage((j - 1) * fanout + c),
                           rowid_key |-> KeyAfter(rs, leafEnd((j - 1) * fanout + c), slack)]],
             rmp_bytes |-> leafPage(innerEnd(j))]
        rootOf ==
            [type_byte |-> InteriorTable,
             cells |-> [j \in 1..(nInner - 1) |->
                          [left_child_page_no |-> innerPage(j),
                           rowid_key |-> KeyAfter(rs, leafEnd(innerEnd(j)), slack)]],
             rmp_bytes |-> innerPage(nInner)]
    IN  [pg \in base..(base + top + nInner + nLeaves - 1) |->
            IF top = 1 /\ pg = base THEN rootOf
            ELSE IF pg < base + top + nInner THEN innerOf(pg - base - top + 1)
            ELSE leafOf(pg - base - top - nInner + 1)]

\* An index B-tree holding the entries es (sorted by key, then rowid) in
\* order: leaf_cap entries a leaf, then one entry in an interior cell, and so
\* on; of the interior cells, inner_cap stay on a page and the next moves up
\* to the root.  An entry is the record (key, rowid), the rowid stored in the
\* narrowest integer serial type.
IndexPages(es, leaf_cap, inner_cap, base) ==
    LET n == Len(es)
        g == leaf_cap + 1
        m == IF n = 0 THEN 0 ELSE (n - 1) \div g
        h == inner_cap + 1
        q == IF m = 0 THEN 0 ELSE (m - 1) \div h
        top == IF q > 0 THEN 1 ELSE 0
        nInner == IF m = 0 THEN 0 ELSE q + 1
        innerPage(j) == base + top + (j - 1)
        leafPage(k) == base + top + nInner + (k - 1)
        payloadOf(p) == <<es[p].key, StoredInt(es[p].rowid)>>
        leafEnd(k) == IF k <= m THEN k * g - 1 ELSE n
        leafOf(k) ==
            [type_byte |-> LeafIndex,
             cells |-> [c \in 1..(leafEnd(k) - (k - 1) * g) |->
                          [payload |-> payloadOf((k - 1) * g + c)]],
             rmp_bytes |-> 0]
        innerEnd(j) == IF j <= q THEN j * h - 1 ELSE m
        innerOf(j) ==
            [type_byte |-> InteriorIndex,
             cells |-> [c \in 1..(innerEnd(j) - (j - 1) * h) |->
                          [left_child_page_no |-> leafPage((j - 1) * h + c),
                           payload |-> payloadOf(((j - 1) * h + c) * g)]],
             rmp_bytes |-> leafPage(innerEnd(j) + 1)]
        rootOf ==
            [type_byte |-> InteriorIndex,
             cells |-> [j \in 1..q |->
                          [left_child_page_no |-> innerPage(j),
                           payload |-> payloadOf(j * h * g)]],
             rmp_bytes |-> innerPage(q + 1)]
    IN  [pg \in base..(base + top + nInner + m) |->
            IF top = 1 /\ pg = base THEN rootOf
            ELSE IF pg < base + top + nInner THEN innerOf(pg - base - top + 1)
            ELSE leafOf(pg - base - top - nInner + 1)]

----------------------------------------------------------------------------
(* Schema catalog and DDL.                                                 *)

\* Schema::parse_return_option on a catalog record: root_page goes through
\* the small-integer decoder.  The sql column is kept as the statement it
\* spells, which is all the parsers below take from it.
Schema_parse(record) ==
    LET root_page == parse_24bit_be_twos_complement(record.root_page) IN
    [ok |-> root_page.ok,
     kind |-> record.kind,
     name |-> record.name,
     table_name |-> record.table_name,
     root_page |-> root_page.val,
     sql |-> record.sql]

\* parse_schemas: one Schema per cell of page 1, in cell order
parse_schemas(catalog) == [i \in 1..Len(catalog) |-> Schema_parse(catalog[i])]

\* parse_create_index: IndexInfo of a CREATE INDEX statement, an error on
\* any other text
parse_create_index(sql) ==
    IF sql.stmt = "create_index"
    THEN [ok |-> TRUE,
          index_name |-> sql.index_name,
          table_name |-> sql.table_name,
          column_name |-> sql.column_name]
    ELSE [ok |-> FALSE]

\* parse_creation: the ordered (name, is_primary_key) fields of a CREATE
\* TABLE statement, an error on any other text
parse_creation(sql) ==
    IF sql.stmt = "create_table"
    THEN [ok |-> TRUE, table |-> sql.table, fields |-> sql.fields]
    ELSE [ok |-> FALSE]

\* Iterator::find over the outcomes of the predicate on each element: the
\* first position that satisfies it, 0 for None
FindFirst(hits) ==
    IF \E i \in 1..Len(hits) : hits[i]
    THEN CHOOSE i \in 1..Len(hits) : hits[i] /\ \A j \in 1..(i - 1) : ~hits[j]
    ELSE 0

\* get_fields_in_table: the catalog is decoded again from page 1, the entry
\* is the first whose table_name matches (unwrap), its sql goes through
\* parse_creation (unwrap); map is field name -> (ind, field), ind counted
\* from 1 here.  at names the catalog entry used.
get_fields_in_table(tablename, catalog) ==
    LET schemas == parse_schemas(catalog)
        Matches(schema) == schema.table_name = tablename
        at == FindFirst([i \in 1..Len(schemas) |-> Matches(schemas[i])])
    IN  IF ~AllOk(schemas) \/ at = 0 THEN [ok |-> FALSE, at |-> at]
        ELSE LET create_statement == parse_creation(schemas[at].sql) IN
             IF ~create_statement.ok THEN [ok |-> FALSE, at |-> at]
             ELSE [ok |-> TRUE,
                   at |-> at,
                   map |-> [name \in {create_statement.fields[i].name :
                                        i \in 1..Len(create_statement.fields)} |->
                              LET ind == CHOOSE i \in 1..Len(create_statement.fields) :
                                            /\ create_statement.fields[i].name = name
                                            /\ \A j \in (i + 1)..Len(create_statement.fields) :
                                                  create_statement.fields[j].name # name
                              IN  [ind |-> ind, field |-> create_statement.fields[ind]]]]

----------------------------------------------------------------------------
(* Query executor.                                                         *)

\* get_value_for_record without the is_primary_key branch
get_value_from_columns(record, ind, field) ==
    IF ind <= Len(record.columns) THEN [ok |-> TRUE, val |-> record.columns[ind]]
    ELSE [ok |-> FALSE, val |-> <<>>]

\* get_value_for_record: [ok |-> FALSE] is the index-out-of-range panic of
\* record.columns[ind]
get_value_for_record(record, ind, field) ==
    IF field.is_primary_key THEN [ok |-> TRUE, val |-> record.row_id]
    ELSE IF ind <= Len(record.columns) THEN [ok |-> TRUE, val |-> record.columns[ind]]
    ELSE [ok |-> FALSE, val |-> <<>>]

\* process_query, lines 405-423: Some(index_info) when the first index entry
\* of the table is on the filter column; [ok |-> FALSE] is the unwrap on a
\* CREATE INDEX text that does not parse
PlanIndex(schemas, q) ==
    IF q.where_clause = <<>> THEN [ok |-> TRUE, idx_info |-> <<>>]
    ELSE
    LET key == q.where_clause[1].key
        IsIndexOf(schema) == schema.kind = "index" /\ schema.table_name = q.table
        at == FindFirst([i \in 1..Len(schemas) |-> IsIndexOf(schemas[i])])
    IN  IF at = 0 THEN [ok |-> TRUE, idx_info |-> <<>>]
        ELSE LET index_info == parse_create_index(schemas[at].sql) IN
             IF ~index_info.ok THEN [ok |-> FALSE, idx_info |-> <<>>]
             ELSE IF index_info.column_name = key
             THEN [ok |-> TRUE, idx_info |-> <<index_info>>]
             ELSE [ok |-> TRUE, idx_info |-> <<>>]

\* DB::get_records_using_index: the index entry is found by kind and name
\* (unwrap), its tree searched from the root
get_records_using_index(d, index_info, value) ==
    LET Named(schema) == schema.kind = "index" /\ schema.name = index_info.index_name
        at == FindFirst([i \in 1..Len(d.schemas) |-> Named(d.schemas[i])])
    IN  IF at = 0 THEN SearchFailed(<<>>)
        ELSE parse_page(d.pages, d.schemas[at].root_page, value)

\* the catalog entry process_query and get_records_for_schema take the
\* table's root page from: the first whose table_name matches
TableSchemaAt(schemas, tablename) ==
    LET Matches(schema) == schema.table_name = tablename
    IN  FindFirst([i \in 1..Len(schemas) |-> Matches(schemas[i])])

\* DB::get_records_for_schema
get_records_for_schema(d, tablename) ==
    LET at == TableSchemaAt(d.schemas, tablename) IN
    IF at = 0 THEN [ok |-> FALSE, recs |-> <<>>]
    ELSE get_them_records(d.pages, d.schemas[at].root_page)

\* whether a record passes the filter (k, v): fields[k] panics on an unknown
\* column, get_value_for_record on a record too short
FilterValue(fs, record, where) ==
    IF where.key \notin DOMAIN fs THEN [ok |-> FALSE, val |-> <<>>]
    ELSE get_value_for_record(record, fs[where.key].ind, fs[where.key].field)

RECURSIVE SelectSeq2(_, _)
SelectSeq2(s, keep) ==
    IF s = <<>> THEN <<>>
    ELSE (IF keep[1] THEN <<s[1]>> ELSE <<>>)
         \o SelectSeq2(Tail(s), Tail(keep))

\* process_query, lines 427-446: rowids from the index, one lookup each
IndexPathRecords(d, q, index_info) ==
    LET row_ids == get_records_using_index(d, index_info, q.where_clause[1].value)
        at == TableSchemaAt(d.schemas, q.table)
    IN  IF ~row_ids.ok \/ at = 0 THEN [ok |-> FALSE, recs |-> <<>>]
        ELSE LET found == [i \in 1..Len(row_ids.rows) |->
                              get_record_by_row_id(row_ids.rows[i], d.pages,
                                                   d.schemas[at].root_page)]
             IN  IF AllOk(found)
                 THEN [ok |-> TRUE, recs |-> [i \in 1..Len(found) |-> found[i].rec]]
                 ELSE [ok |-> FALSE, recs |-> <<>>]

\* process_query, lines 456-470: full scan, then the filter
ScanPathRecords(d, q, fs) ==
    LET scanned == get_records_for_schema(d, q.table) IN
    IF ~scanned.ok THEN scanned
    ELSE IF q.where_clause = <<>> THEN scanned
    ELSE LET vals == [i \in 1..Len(scanned.recs) |->
                         FilterValue(fs, scanned.recs[i], q.where_clause[1])]
         IN  IF ~AllOk(vals) THEN [ok |-> FALSE, recs |-> <<>>]
             ELSE [ok |-> TRUE,
                   recs |-> SelectSeq2(scanned.recs,
                                [i \in 1..Len(vals) |->
                                    vals[i].val = q.where_clause[1].value])]

\* process_query, lines 427-471
FetchRecords(d, q, fs, plan) ==
    IF plan # <<>> THEN IndexPathRecords(d, q, plan[1])
    ELSE ScanPathRecords(d, q, fs)

\* the loop body without the test of the filter: every fetched record is
\* printed
ProjectRecordUnfiltered(q, fs, record) ==
    LET columns == q.select_clause.columns
        vals == [i \in 1..Len(columns) |->
                    IF columns[i] \notin DOMAIN fs THEN [ok |-> FALSE, val |-> <<>>]
                    ELSE get_value_for_record(record, fs[columns[i]].ind,
                                              fs[columns[i]].field)]
    IN  IF ~AllOk(vals) THEN [ok |-> FALSE, skip |-> FALSE, line |-> <<>>]
        ELSE [ok |-> TRUE, skip |-> FALSE,
              line |-> join([i \in 1..Len(columns) |-> vals[i].val])]

\* process_query, lines 476-492, for one record: skip tells that the filter
\* dropped it, line is what println! writes otherwise
ProjectRecord(q, fs, record) ==
    LET filter == IF q.where_clause = <<>> THEN [ok |-> TRUE, val |-> <<>>]
                  ELSE FilterValue(fs, record, q.where_clause[1])
        columns == q.select_clause.columns
        vals == [i \in 1..Len(columns) |->
                    IF columns[i] \notin DOMAIN fs THEN [ok |-> FALSE, val |-> <<>>]
                    ELSE get_value_for_record(record, fs[columns[i]].ind,
                                              fs[columns[i]].field)]
    IN  IF ~filter.ok THEN [ok |-> FALSE, skip |-> FALSE, line |-> <<>>]
        ELSE IF q.where_clause # <<>> /\ filter.val # q.where_clause[1].value
        THEN [ok |-> TRUE, skip |-> TRUE, line |-> <<>>]
        ELSE IF ~AllOk(vals) THEN [ok |-> FALSE, skip |-> FALSE, line |-> <<>>]
        ELSE [ok |-> TRUE, skip |-> FALSE,
              line |-> join([i \in 1..Len(columns) |-> vals[i].val])]

----------------------------------------------------------------------------
(* The databases and statements of the query model.                        *)

SampleRowIds == <<1, 2, 200, 40000, 8388608>>

RowIdPool == {SampleRowIds[i] : i \in 1..Min(NumRowIds, Len(SampleRowIds))}

\* stored TEXT of the country column: "a", "b" and one byte that is not UTF-8
Countries == {<<97>>, <<98>>, <<255>>}

\* the name column of the row with rowid r: "n" and r in decimal
NameOf(r) == <<110>> \o to_string(r)

\* CREATE TABLE t (id integer primary key, name text, country text) and
\* CREATE TABLE t (name text, country text)
Ddl(v) ==
    [stmt |-> "create_table",
     table |-> "t",
     fields |-> IF v = 1
                THEN <<[name |-> "id", is_primary_key |-> TRUE],
                       [name |-> "name", is_primary_key |-> FALSE],
                       [name |-> "country", is_primary_key |-> FALSE]>>
                ELSE <<[name |-> "name", is_primary_key |-> FALSE],
                       [name |-> "country", is_primary_key |-> FALSE]>>]

CreateIndex(index_name, column_name) ==
    [stmt |-> "create_index",
     index_name |-> index_name,
     table_name |-> "t",
     column_name |-> column_name]

\* the record of a row: an INTEGER PRIMARY KEY column is stored as NULL; a
\* row written before the last column was added has no bytes for it
PayloadOf(row, v) ==
    LET full == IF v = 1 THEN <<<<>>, NameOf(row.rowid), row.country>>
                ELSE <<NameOf(row.rowid), row.country>>
    IN  IF row.short THEN SubSeq(full, 1, Len(full) - 1) ELSE full

\* the value the index on column_name holds for a row (NULL for no column)
IndexedValue(row, column_name) ==
    IF column_name = "name" THEN NameOf(row.rowid)
    ELSE IF row.short THEN <<>> ELSE row.country

EntryLe(x, y) ==
    \/ StrLt(x.key, y.key)
    \/ x.key = y.key /\ x.rowid <= y.rowid

RECURSIVE SortEntries(_)
SortEntries(S) ==
    IF S = {} THEN <<>>
    ELSE LET least == CHOOSE x \in S : \A y \in S : EntryLe(x, y)
         IN  <<least>> \o SortEntries(S \ {least})

IndexEntries(rows, column_name) ==
    SortEntries({[key |-> IndexedValue(rows[i], column_name), rowid |-> rows[i].rowid] :
                    i \in 1..Len(rows)})

RECURSIVE SortRowIds(_)
SortRowIds(S) ==
    IF S = {} THEN <<>>
    ELSE LET least == CHOOSE x \in S : \A y \in S : x <= y
         IN  <<least>> \o SortRowIds(S \ {least})

TableRoot == 2
CountryIndexRoot == 20
NameIndexRoot == 40

TableEntry(v) ==
    [kind |-> "table", name |-> "t", table_name |-> "t",
     root_page |-> StoredInt(TableRoot), sql |-> Ddl(v)]

CountryIndexEntry ==
    [kind |-> "index", name |-> "idx_country", table_name |-> "t",
     root_page |-> StoredInt(CountryIndexRoot), sql |-> CreateIndex("idx_country", "country")]

NameIndexEntry ==
    [kind |-> "index", name |-> "idx_name", table_name |-> "t",
     root_page |-> StoredInt(NameIndexRoot), sql |-> CreateIndex("idx_name", "name")]

\* the catalogs: the table alone; the table and an index on country; the
\* table, an index on name and an index on country; an index on country
\* whose entry comes before the table's
CatalogOf(s) ==
    CASE s.catalog = 1 -> <<TableEntry(s.ddl)>>
      [] s.catalog = 2 -> <<TableEntry(s.ddl), CountryIndexEntry>>
      [] s.catalog = 3 -> <<TableEntry(s.ddl), NameIndexEntry, CountryIndexEntry>>
      [] OTHER         -> <<CountryIndexEntry, TableEntry(s.ddl)>>

PagesOf(s) ==
    LET table == TablePages([i \in 1..Len(s.rows) |->
                                [rowid |-> s.rows[i].rowid,
                                 payload |-> PayloadOf(s.rows[i], s.ddl)]],
                            s.leaf_cap, 2, TableRoot, 0)
        country == IndexPages(IndexEntries(s.rows, "country"), s.leaf_cap, 1,
                              CountryIndexRoot)
        name == IndexPages(IndexEntries(s.rows, "name"), s.leaf_cap, 1, NameIndexRoot)
    IN  CASE s.catalog = 1 -> table
          [] s.catalog = 3 -> table @@ country @@ name
          [] OTHER         -> table @@ country

\* main: the catalog of page 1 decoded, DB::new
Database(s) ==
    [catalog |-> CatalogOf(s),
     schemas |-> parse_schemas(CatalogOf(s)),
     pages |-> PagesOf(s)]

Sources ==
    {[rows |-> [i \in 1..Len(ids) |->
                   [rowid |-> ids[i], country |-> country[ids[i]], short |-> ids[i] = short]],
      ddl |-> ddl, leaf_cap |-> leaf_cap, catalog |-> catalog] :
        ids \in {SortRowIds(S) : S \in {T \in SUBSET RowIdPool : Cardinality(T) <= MaxRows}},
        country \in [RowIdPool -> Countries],
        short \in RowIdPool \cup {0},
        ddl \in 1..2, leaf_cap \in 1..2, catalog \in 1..4}

Columns(cs) == [kind |-> "Columns", columns |-> cs]

FunctionCall(name) == [kind |-> "FunctionCall", name |-> name]

\* name, "id, country", COUNT(*), count(*), sum(*)
SelectClauses ==
    {Columns(<<"name">>), Columns(<<"id", "country">>),
     FunctionCall(<<67, 79, 85, 78, 84>>), FunctionCall(<<99, 111, 117, 110, 116>>),
     FunctionCall(<<115, 117, 109>>)}

\* no filter, country = 'a', country = U+FFFD, name = 'n2', id = '2'
WhereClauses ==
    {<<>>, <<[key |-> "country", value |-> <<97>>]>>,
     <<[key |-> "country", value |-> Replacement]>>,
     <<[key |-> "name", value |-> <<110, 50>>]>>,
     <<[key |-> "id", value |-> <<50>>]>>}

Queries ==
    {[select_clause |-> sel, table |-> "t", where_clause |-> w] :
        sel \in SelectClauses, w \in WhereClauses}

----------------------------------------------------------------------------
(* DB::process_query, step by step.                                        *)

Idle == <<>>

\* process_query ended in a panic or an error return
Failed == pc \in {"failed_plan", "failed_fields", "failed_fetch", "failed_emit"}

Init ==
    /\ src \in Sources
    /\ db = Database(src)
    /\ query \in Queries
    /\ pc = "start"
    /\ idx_info = <<>>
    /\ fields = <<>>
    /\ records = <<>>
    /\ pos = 0
    /\ out = <<>>
    /\ arg = Idle
    /\ res = Idle

\* lines 405-423
Plan ==
    /\ pc = "start"
    /\ LET plan == PlanIndex(db.schemas, query) IN
       /\ pc' = IF plan.ok THEN "planned" ELSE "failed_plan"
       /\ idx_info' = plan.idx_info
    /\ UNCHANGED <<db, query, fields, records, pos, out, src, arg, res>>

\* line 425
ResolveFields ==
    /\ pc = "planned"
    /\ LET got == get_fields_in_table(query.table, db.catalog) IN
       /\ pc' = IF got.ok THEN "resolved" ELSE "failed_fields"
       /\ fields' = IF got.ok THEN got.map ELSE fields
    /\ UNCHANGED <<db, query, idx_info, records, pos, out, src, arg, res>>

\* lines 427-471
Fetch ==
    /\ pc = "resolved"
    /\ LET got == FetchRecords(db, query, fields, idx_info) IN
       /\ pc' = IF got.ok THEN "fetched" ELSE "failed_fetch"
       /\ records' = got.recs
       /\ pos' = 1
    /\ UNCHANGED <<db, query, idx_info, fields, out, src, arg, res>>

\* lines 475-493, one turn of the loop
EmitRow ==
    /\ pc = "fetched"
    /\ query.select_clause.kind = "Columns"
    /\ pos <= Len(records)
    /\ LET row == ProjectRecord(query, fields, records[pos]) IN
       /\ pc' = IF row.ok THEN "fetched" ELSE "failed_emit"
       /\ out' = IF row.ok /\ ~row.skip THEN Append(out, row.line) ELSE out
       /\ pos' = pos + 1
    /\ UNCHANGED <<db, query, idx_info, fields, records, src, arg, res>>

\* lines 495-500 and the return
Count ==
    /\ pc = "fetched"
    /\ query.select_clause.kind = "FunctionCall"
    /\ out' = IF eq_ignore_ascii_case(query.select_clause.name, <<67, 79, 85, 78, 84>>)
              THEN Append(out, to_string(Len(records))) ELSE out
    /\ pc' = "done"
    /\ UNCHANGED <<db, query, idx_info, fields, records, pos, src, arg, res>>

\* the loop is over: line 503
Return ==
    /\ pc = "fetched"
    /\ query.select_clause.kind = "Columns"
    /\ pos > Len(records)
    /\ pc' = "done"
    /\ UNCHANGED <<db, query, idx_info, fields, records, pos, out, src, arg, res>>

Next == Plan \/ ResolveFields \/ Fetch \/ EmitRow \/ Count \/ Return

Spec == Init /\ [][Next]_vars

----------------------------------------------------------------------------
(* The small-integer decoder on its own.                                   *)

SampleBytes == {0, 1, 127, 128, 255}

ByteStrings == UNION {[1..w -> SampleBytes] : w \in 0..MaxWidth}

NoDatabase == [catalog |-> <<>>, schemas |-> <<>>, pages |-> <<>>]

InitBytes ==
    /\ arg \in ByteStrings
    /\ pc = "bytes"
    /\ res = Idle
    /\ db = NoDatabase
    /\ query = Idle /\ idx_info = <<>> /\ fields = <<>> /\ records = <<>>
    /\ pos = 0 /\ out = <<>> /\ src = Idle

Decode ==
    /\ pc = "bytes"
    /\ res' = parse_24bit_be_twos_complement(arg)
    /\ pc' = "decoded"
    /\ UNCHANGED <<db, query, idx_info, fields, records, pos, out, src, arg>>

SpecBytes == InitBytes /\ [][Decode]_vars

----------------------------------------------------------------------------
(* The table traversals on their own.                                      *)

\* most levels of a B-tree the layouts above build
MaxLevels == 3

\* index entries of the trees walked call by call
MaxWalkEntries == 3

\* rowid of the i-th row of a table traversed on its own: 7, 17, 27, ...
TreeRowId(i) == 10 * i - 3

\* what the page at number pg is overwritten with, if any: an index page
\* type or a type byte the header decoder rejects
Damage(pages, pg, type_byte) ==
    IF pg = 0 THEN pages ELSE [pages EXCEPT ![pg].type_byte = type_byte]

TreeSources ==
    {[n |-> n, rot |-> rot, leaf_cap |-> leaf_cap, fanout |-> fanout, slack |-> slack,
      bad |-> bad, bad_type |-> bad_type] :
        n \in 0..MaxTreeRows, rot \in 0..MaxTreeRows, leaf_cap \in 1..2,
        fanout \in 2..3, slack \in 0..1, bad \in 0..(TableRoot + 2 * MaxTreeRows),
        bad_type \in {InteriorIndex, LeafIndex, 0}}

\* the rows of a tree source, left to right: sorted by rowid when rot = 0,
\* rotated by rot places otherwise
TreeRows(s) ==
    [i \in 1..s.n |->
        LET r == TreeRowId(((i - 1 + s.rot) % s.n) + 1)
        IN  [rowid |-> r, payload |-> <<NameOf(r)>>]]

TreePagesOf(s) ==
    Damage(TablePages(TreeRows(s), s.leaf_cap, s.fanout, TableRoot, s.slack),
           s.bad, s.bad_type)

InitTree ==
    /\ src \in {s \in TreeSources :
                  /\ s.rot < s.n \/ s.rot = 0
                  /\ s.rot = 0 \/ s.slack = 0
                  /\ s.bad = 0 \/ s.bad \in DOMAIN TablePages(TreeRows(s), s.leaf_cap,
                                                            s.fanout, TableRoot, s.slack)
                  /\ s.bad # 0 \/ s.bad_type = 0}
    /\ db = [catalog |-> <<>>, schemas |-> <<>>, pages |-> TreePagesOf(src)]
    /\ pc = "tree"
    /\ arg = Idle
    /\ res = Idle
    /\ query = Idle /\ idx_info = <<>> /\ fields = <<>> /\ records = <<>>
    /\ pos = 0 /\ out = <<>>

\* get_them_records from the root
Scan ==
    /\ pc = "tree"
    /\ res' = get_them_records(db.pages, TableRoot)
    /\ pc' = "scanned"
    /\ UNCHANGED <<db, query, idx_info, fields, records, pos, out, src, arg>>

\* get_record_by_row_id from the root, for a rowid of the tree or the
\* rowid before it
Lookup ==
    /\ pc = "tree"
    /\ \E i \in 1..src.n, below \in 0..1 :
          /\ arg' = TreeRowId(i) - below
          /\ res' = get_record_by_row_id(TreeRowId(i) - below, db.pages, TableRoot)
    /\ pc' = "looked"
    /\ UNCHANGED <<db, query, idx_info, fields, records, pos, out, src>>

NextTree == Scan \/ Lookup

SpecTree == InitTree /\ [][NextTree]_vars

----------------------------------------------------------------------------
(* The index equality search on its own.                                   *)

SampleIndexRowIds == <<1, 2, 8388608, -1, 200, 32768, 127, 128, 40000>>

\* stored keys: "a", "aa" and one byte that is not UTF-8
IndexKeys == {<<97>>, <<97, 97>>, <<255>>}

\* searched values: "a", "aa", "b" and U+FFFD
SearchValues == {<<97>>, <<97, 97>>, <<98>>, Replacement}

IndexSources ==
    {[entries |-> SortEntries({[key |-> key[i], rowid |-> SampleIndexRowIds[i]] : i \in 1..n}),
      leaf_cap |-> leaf_cap, inner_cap |-> inner_cap] :
        n \in 0..Min(MaxEntries, Len(SampleIndexRowIds)),
        key \in [1..MaxEntries -> IndexKeys],
        leaf_cap \in 1..2, inner_cap \in 1..2}

InitIndex ==
    /\ src \in IndexSources
    /\ db = [catalog |-> <<>>, schemas |-> <<>>,
             pages |-> IndexPages(src.entries, src.leaf_cap, src.inner_cap, CountryIndexRoot)]
    /\ arg \in SearchValues
    /\ pc = "index"
    /\ res = Idle
    /\ query = Idle /\ idx_info = <<>> /\ fields = <<>> /\ records = <<>>
    /\ pos = 0 /\ out = <<>>

\* parse_page from the index root
Search ==
    /\ pc = "index"
    /\ res' = parse_page(db.pages, CountryIndexRoot, arg)
    /\ pc' = "searched"
    /\ UNCHANGED <<db, query, idx_info, fields, records, pos, out, src, arg>>

SpecIndex == InitIndex /\ [][Search]_vars

----------------------------------------------------------------------------
(* What the tree holds, stated by position and not by traversal.           *)

\* the child of interior table page pg in slot s: the left child of cell s,
\* right_most_pointer in the slot after the last cell, 0 for no such child
ChildAt(pages, pg, s) ==
    IF pg \notin DOMAIN pages THEN 0
    ELSE IF pages[pg].type_byte # InteriorTable THEN 0
    ELSE IF s <= Len(pages[pg].cells) THEN pages[pg].cells[s].left_child_page_no
    ELSE IF s = Len(pages[pg].cells) + 1 THEN pages[pg].rmp_bytes
    ELSE 0

\* the page reached from pg through the slots, 0 for none
RECURSIVE PageAt(_, _, _)
PageAt(pages, pg, slots) ==
    IF slots = <<>> \/ pg = 0 THEN pg
    ELSE PageAt(pages, ChildAt(pages, pg, Head(slots)), Tail(slots))

MaxCells(pages) ==
    CHOOSE m \in 0..(2 * MaxTreeRows + 2) :
        /\ \A pg \in DOMAIN pages : Len(pages[pg].cells) <= m
        /\ \/ m = 0
           \/ \E pg \in DOMAIN pages : Len(pages[pg].cells) = m

SlotSeqs(pages) ==
    UNION {[1..d -> 1..(MaxCells(pages) + 1)] : d \in 0..(MaxLevels - 1)}

\* the slot sequences that lead from the root to a page
Reached(pages, root) == {sl \in SlotSeqs(pages) : PageAt(pages, root, sl) # 0}

IsLeafTable(pages, pg) == pg \in DOMAIN pages /\ pages[pg].type_byte = LeafTable

\* every leaf-table cell under the root, by position
LeafCells(pages, root) ==
    UNION {{[slots |-> sl, cell |-> c] :
               c \in 1..Len(pages[PageAt(pages, root, sl)].cells)} :
           sl \in {x \in Reached(pages, root) : IsLeafTable(pages, PageAt(pages, root, x))}}

CellOf(pages, root, p) == pages[PageAt(pages, root, p.slots)].cells[p.cell]

\* left-to-right order of two leaf cells
Before(p, q) == StrLt(Append(p.slots, p.cell), Append(q.slots, q.cell))

Rank(pages, root, p) == 1 + Cardinality({q \in LeafCells(pages, root) : Before(q, p)})

\* a page under the root that the header decoder rejects or that lies
\* outside the file
HasBadPage(pages, root) ==
    \E sl \in Reached(pages, root) :
        LET pg == PageAt(pages, root, sl)
        IN  \/ pg \notin DOMAIN pages
            \/ pages[pg].type_byte \notin {InteriorIndex, InteriorTable, LeafIndex, LeafTable}

\* C7: the full scan from the root yields every leaf-table cell reachable
\* from it exactly once and left to right: on an interior page the subtrees
\* of the cells' left children in cell order and then the subtree of
\* right_most_pointer, on a leaf the cells in cell order; an index page
\* under the root yields nothing.  (The scan panics exactly when a page
\* under the root has no valid header.)
C7_ScanYieldsLeafCellsInOrder ==
    pc = "scanned" =>
        /\ res.ok = ~HasBadPage(db.pages, TableRoot)
        /\ res.ok =>
              /\ Len(res.recs) = Cardinality(LeafCells(db.pages, TableRoot))
              /\ \A p \in LeafCells(db.pages, TableRoot) :
                    res.recs[Rank(db.pages, TableRoot, p)]
                        = RecordOf(CellOf(db.pages, TableRoot, p))

\* a three-level tree holding an index page, scanned to four rows or more
C7_Witness ==
    /\ pc = "scanned"
    /\ res.ok
    /\ Len(res.recs) >= 4
    /\ Len(res.recs) < src.n
    /\ \E sl \in Reached(db.pages, TableRoot) :
          Len(sl) = 2 /\ IsLeafTable(db.pages, PageAt(db.pages, TableRoot, sl))
    /\ \E pg \in DOMAIN db.pages : db.pages[pg].type_byte \in {InteriorIndex, LeafIndex}
    /\ Len(db.pages[TableRoot].cells) >= 1

\* the tree is a search tree: on every interior page the keys do not
\* decrease, each key bounds the rowids under the slots up to its own and is
\* below every rowid under the later slots; no index or damaged page in it
IsTableBTree(pages, root) ==
    /\ ~HasBadPage(pages, root)
    /\ \A sl \in Reached(pages, root) :
          pages[PageAt(pages, root, sl)].type_byte \in {InteriorTable, LeafTable}
    /\ \A sl \in Reached(pages, root) :
          LET pg == PageAt(pages, root, sl)
              cells == pages[pg].cells
          IN  pages[pg].type_byte = InteriorTable =>
                /\ \A i \in 1..(Len(cells) - 1) : cells[i].rowid_key <= cells[i + 1].rowid_key
                /\ \A i \in 1..Len(cells) :
                      \A p \in LeafCells(pages, root) :
                          (Len(p.slots) > Len(sl) /\ SubSeq(p.slots, 1, Len(sl)) = sl) =>
                             IF p.slots[Len(sl) + 1] <= i
                             THEN CellOf(pages, root, p).rowid <= cells[i].rowid_key
                             ELSE CellOf(pages, root, p).rowid > cells[i].rowid_key

\* the pages from the root along the slots
PagesAlong(pages, root, slots) ==
    [k \in 1..(Len(slots) + 1) |-> PageAt(pages, root, SubSeq(slots, 1, k - 1))]

----------------------------------------------------------------------------
(* The small-integer decoder against two's complement.                     *)

RECURSIVE Unsigned(_)
Unsigned(bytes) ==
    IF bytes = <<>> THEN 0
    ELSE Unsigned(SubSeq(bytes, 1, Len(bytes) - 1)) * 256 + bytes[Len(bytes)]

\* big-endian two's complement of the width of bytes
TwosComplement(bytes) ==
    LET top == 2 ^ (8 * Len(bytes) - 1)
    IN  IF Unsigned(bytes) >= top THEN Unsigned(bytes) - 2 * top ELSE Unsigned(bytes)

\* C9: at width 1, 2 and 3 the decoder returns the big-endian two's
\* complement value of that width, sign-extended: negative when the top bit
\* is set, at width 1 as at widths 2 and 3.
C9_TwosComplementAtEveryWidth ==
    (pc = "decoded" /\ Len(arg) \in 1..3) =>
        /\ res.ok
        /\ res.val = TwosComplement(arg)

----------------------------------------------------------------------------
(* The index equality search against the entries of the index.             *)

\* the rowids of the entries whose key is byte-equal to the value
MatchingRowIds(entries, value) ==
    {entries[i].rowid : i \in {j \in 1..Len(entries) : entries[j].key = value}}

\* C2: the search from the index root collects exactly the rowids of the
\* entries, in leaves and in interior cells, whose key is byte-equal to the
\* value: none missing, none of another key, none twice.
C2_SearchCollectsMatchingRowIds ==
    pc = "searched" =>
        /\ res.ok
        /\ Len(res.rows) = Cardinality(MatchingRowIds(src.entries, arg))
        /\ {res.rows[i] : i \in 1..Len(res.rows)} = MatchingRowIds(src.entries, arg)

----------------------------------------------------------------------------
(* The planner and the catalog lookups.                                    *)

\* some index entry of the queried table is on the filter column
IndexOnFilterColumn(catalog, q) ==
    /\ q.where_clause # <<>>
    /\ \E i \in 1..Len(catalog) :
          /\ catalog[i].kind = "index"
          /\ catalog[i].table_name = q.table
          /\ catalog[i].sql.stmt = "create_index"
          /\ catalog[i].sql.column_name = q.where_clause[1].key

\* C3: once planned, the index path is taken exactly when the query has a
\* filter and some index entry of the queried table, wherever it stands in
\* the catalog, is on the filter column; the scan path otherwise.
C3_IndexPathWheneverAnIndexFits ==
    pc \notin {"start", "failed_plan"} =>
        ((idx_info # <<>>) = IndexOnFilterColumn(db.catalog, query))

\* C4: the field list and the root page of the queried table come from the
\* catalog entry of kind "table" with the table's name, whatever the order of
\* the catalog, so resolving the fields of a table that has one never fails.
C4_TableEntryIsUsed ==
    pc \notin {"start", "planned"} =>
        LET used == get_fields_in_table(query.table, db.catalog).at
            root == TableSchemaAt(db.schemas, query.table)
        IN  /\ pc # "failed_fields"
            /\ used # 0 /\ db.catalog[used].kind = "table"
            /\ root # 0 /\ db.catalog[root].kind = "table"

\* C10: a run of process_query that ends in a failure has printed nothing.
C10_NoOutputBeforeFailure == Failed => out = <<>>

----------------------------------------------------------------------------
(* Values of columns, from the rows the file was built from.               *)

\* the row of src a record was decoded from: rowids are unique in a table
RowOf(record) ==
    CHOOSE i \in 1..Len(src.rows) : to_string(src.rows[i].rowid) = record.row_id

\* the position of a column in the DDL of the table
DdlPosition(name) ==
    LET fs == Ddl(src.ddl).fields
    IN  CHOOSE i \in 1..Len(fs) : fs[i].name = name

\* the value of a column of a row: the rowid in decimal for the PRIMARY KEY
\* column, the text stored at the column's DDL position for any other
ColumnValue(i, name) ==
    IF Ddl(src.ddl).fields[DdlPosition(name)].is_primary_key
    THEN to_string(src.rows[i].rowid)
    ELSE from_utf8_lossy(PayloadOf(src.rows[i], src.ddl)[DdlPosition(name)])

\* whether a row passes the filter of the query
Passes(i) ==
    \/ query.where_clause = <<>>
    \/ ColumnValue(i, query.where_clause[1].key) = query.where_clause[1].value

\* the lines of the first n fetched records
RECURSIVE ExpectedLines(_)
ExpectedLines(n) ==
    IF n = 0 THEN <<>>
    ELSE LET i == RowOf(records[n])
             columns == query.select_clause.columns
         IN  ExpectedLines(n - 1) \o
             (IF Passes(i)
              THEN <<join([c \in 1..Len(columns) |-> ColumnValue(i, columns[c])])>>
              ELSE <<>>)

----------------------------------------------------------------------------
(* The index path against the scan path, and COUNT.                        *)

\* process_query, lines 475-493, over all the records: what a complete run
\* of the loop prints
RECURSIVE EmitAll(_, _, _)
EmitAll(q, fs, recs) ==
    IF recs = <<>> THEN [ok |-> TRUE, out |-> <<>>]
    ELSE LET row == ProjectRecord(q, fs, recs[1])
             rest == EmitAll(q, fs, Tail(recs))
         IN  IF ~row.ok \/ ~rest.ok THEN [ok |-> FALSE, out |-> <<>>]
             ELSE [ok |-> TRUE,
                   out |-> (IF row.skip THEN <<>> ELSE <<row.line>>) \o rest.out]

\* process_query with the scan path forced: full scan, filter, projection
ScanPathRun(d, q) ==
    LET fs == get_fields_in_table(q.table, d.catalog) IN
    IF ~fs.ok THEN [ok |-> FALSE, out |-> <<>>]
    ELSE LET got == ScanPathRecords(d, q, fs.map) IN
         IF ~got.ok THEN [ok |-> FALSE, out |-> <<>>]
         ELSE EmitAll(q, fs.map, got.recs)

Occurrences(s, x) == Cardinality({i \in 1..Len(s) : s[i] = x})

SameBag(s, t) ==
    /\ Len(s) = Len(t)
    /\ \A i \in 1..Len(s) : Occurrences(s, s[i]) = Occurrences(t, s[i])

\* every row has all the columns of the DDL
NoShortRow == \A i \in 1..Len(src.rows) : ~src.rows[i].short

\* C1: when the index path is taken for a filter col = 'v' on a table whose
\* rows all are in the index, the run ends well and prints the same lines,
\* as a multiset, as the scan path prints for the same query and table.
C1_IndexPathPrintsWhatScanPrints ==
    (/\ pc = "done" \/ Failed
     /\ idx_info # <<>>
     /\ query.select_clause.kind = "Columns"
     /\ NoShortRow
     /\ ScanPathRun(db, query).ok) =>
        /\ pc = "done"
        /\ SameBag(out, ScanPathRun(db, query).out)

\* the rows a COUNT of the query counts: a row that has no bytes for the
\* filter column holds NULL there, which equals no literal
Counted ==
    {i \in 1..Len(src.rows) :
        \/ query.where_clause = <<>>
        \/ /\ DdlPosition(query.where_clause[1].key) <= Len(PayloadOf(src.rows[i], src.ddl))
           /\ Passes(i)}

\* C6: a COUNT(*) query, in any letter case, ends well and prints one line:
\* the number of rows whose filter column equals the literal, or of all rows
\* without a filter, whichever path was planned.  Stated for catalogs that
\* begin with the table's entry, rows that have every column and a filter
\* column the table has.
C6_CountPrintsNumberOfRows ==
    (/\ pc = "done" \/ Failed
     /\ query.select_clause.kind = "FunctionCall"
     /\ eq_ignore_ascii_case(query.select_clause.name, <<67, 79, 85, 78, 84>>)
     /\ db.catalog[1].kind = "table"
     /\ NoShortRow
     /\ \/ query.where_clause = <<>>
        \/ \E i \in 1..Len(Ddl(src.ddl).fields) :
              Ddl(src.ddl).fields[i].name = query.where_clause[1].key) =>
        /\ pc = "done"
        /\ out = <<to_string(Cardinality(Counted))>>

----------------------------------------------------------------------------
(* The page header decoder on its own.                                     *)

\* the pages whose header is decoded: every type byte of one hex digit, up
\* to two cells, a few right-most pointers
HeaderPages ==
    {[type_byte |-> t, cells |-> [i \in 1..n |-> [payload |-> <<>>]], rmp_bytes |-> r] :
        t \in 0..15, n \in 0..2, r \in {0, 3, 4}}

InitHeader ==
    /\ arg \in HeaderPages
    /\ pc = "header"
    /\ res = Idle
    /\ db = NoDatabase /\ src = <<>>
    /\ query = Idle /\ idx_info = <<>> /\ fields = <<>> /\ records = <<>>
    /\ pos = 0 /\ out = <<>>

\* PageHeader::parse, then size() of the header it returned
ParseHeader ==
    /\ pc = "header"
    /\ LET header == PageHeader_parse(arg) IN
       res' = IF header.ok
              THEN [ok |-> TRUE, header |-> header, size |-> PageHeader_size(header)]
              ELSE [ok |-> FALSE]
    /\ pc' = "parsed"
    /\ UNCHANGED <<db, query, idx_info, fields, records, pos, out, src, arg>>

SpecHeader == InitHeader /\ [][ParseHeader]_vars

IsInterior(page_type) == page_type \in {InteriorIndex, InteriorTable}

\* C11: a header that PageHeader::parse returns has one of the four page
\* types, has right_most_pointer exactly when the type is interior, and its
\* size() is 12 exactly when interior and 8 otherwise.
C11_HeaderShape ==
    (pc = "parsed" /\ res.ok) =>
        /\ res.header.page_type \in {InteriorIndex, InteriorTable, LeafIndex, LeafTable}
        /\ (res.header.right_most_pointer # <<>>) = IsInterior(res.header.page_type)
        /\ (res.size = 12) = IsInterior(res.header.page_type)
        /\ (res.size = 8) = ~IsInterior(res.header.page_type)

\* the header of an interior index page
C11_Witness ==
    /\ pc = "parsed"
    /\ res.ok
    /\ res.header.page_type = InteriorIndex
    /\ res.header.right_most_pointer = <<4>>
    /\ res.size = 12

----------------------------------------------------------------------------
(* select_sql.rs: the peg grammar of SELECT, over the characters of the    *)
(* statement.  A rule at a position at gives [ok, next, val]: next is the     *)
(* position after what it consumed.                                        *)

Letters == (65..90) \cup (97..122) \cup {95}

Blanks == {32, 9}

NoMatch == [ok |-> FALSE, next |-> 0, val |-> <<>>]

\* the last position of the longest run of characters of chars that starts
\* at position at: at - 1 when there is none (the greedy * and + of peg)
RunEnd(input, at, chars) ==
    CHOOSE e \in (at - 1)..Len(input) :
        /\ \A i \in at..e : input[i] \in chars
        /\ e = Len(input) \/ input[e + 1] \notin chars

\* a string literal of the grammar: "(*)", ",", "=", "'"
literal(input, at, text) ==
    IF at + Len(text) - 1 <= Len(input) /\ SubSeq(input, at, at + Len(text) - 1) = text
    THEN [ok |-> TRUE, next |-> at + Len(text), val |-> text]
    ELSE NoMatch

\* rule identifier: ['a'..='z' | 'A'..='Z' | '_']+
identifier(input, at) ==
    LET e == RunEnd(input, at, Letters) IN
    IF e >= at THEN [ok |-> TRUE, next |-> e + 1, val |-> SubSeq(input, at, e)]
    ELSE NoMatch

\* rule ws: [' ' | '\t']+
ws(input, at) ==
    LET e == RunEnd(input, at, Blanks) IN
    IF e >= at THEN [ok |-> TRUE, next |-> e + 1, val |-> <<>>] ELSE NoMatch

\* rule wsz: [' ' | '\t']*
wsz(input, at) == [ok |-> TRUE, next |-> RunEnd(input, at, Blanks) + 1, val |-> <<>>]

\* rule kw: as many characters as the keyword has, equal to it but for case
kw(input, at, word) ==
    IF /\ at + Len(word) - 1 <= Len(input)
       /\ eq_ignore_ascii_case(SubSeq(input, at, at + Len(word) - 1), word)
    THEN [ok |-> TRUE, next |-> at + Len(word), val |-> <<>>]
    ELSE NoMatch

\* rule function_call: identifier() "(*)"
function_call(input, at) ==
    LET name == identifier(input, at) IN
    IF ~name.ok THEN NoMatch
    ELSE LET star == literal(input, name.next, <<40, 42, 41>>) IN
         IF ~star.ok THEN NoMatch
         ELSE [ok |-> TRUE, next |-> star.next, val |-> name.val]

\* rule column_list, after a first identifier: "," wsz() identifier(), as
\* often as it matches; a separator no identifier follows is given back
RECURSIVE more_columns(_, _, _)
more_columns(input, at, columns) ==
    LET comma == literal(input, at, <<44>>) IN
    IF ~comma.ok THEN [ok |-> TRUE, next |-> at, val |-> columns]
    ELSE LET column == identifier(input, wsz(input, comma.next).next) IN
         IF ~column.ok THEN [ok |-> TRUE, next |-> at, val |-> columns]
         ELSE more_columns(input, column.next, Append(columns, column.val))

\* rule column_list: identifier() ** ("," wsz()), which matches no
\* identifier at all too
column_list(input, at) ==
    LET column == identifier(input, at) IN
    IF ~column.ok THEN [ok |-> TRUE, next |-> at, val |-> <<>>]
    ELSE more_columns(input, column.next, <<column.val>>)

\* rule select_clause: function_call() / column_list()
select_clause(input, at) ==
    LET call == function_call(input, at) IN
    IF call.ok
    THEN [ok |-> TRUE, next |-> call.next, val |-> FunctionCall(call.val)]
    ELSE LET list == column_list(input, at) IN
         [ok |-> TRUE, next |-> list.next, val |-> Columns(list.val)]

\* rule quoted_string: "'" [^'\'']* "'"
quoted_string(input, at) ==
    LET open == literal(input, at, <<39>>) IN
    IF ~open.ok THEN NoMatch
    ELSE LET e == RunEnd(input, open.next, (0..127) \ {39})
             close == literal(input, e + 1, <<39>>)
         IN  IF ~close.ok THEN NoMatch
             ELSE [ok |-> TRUE, next |-> close.next,
                   val |-> SubSeq(input, open.next, e)]


\* rule optional_where_clause:
\* ws() kw("WHERE") ws() identifier() wsz() "=" wsz() quoted_string()
optional_where_clause(input, at) ==
    LET lead == ws(input, at) IN
    IF ~lead.ok THEN NoMatch
    ELSE LET word == kw(input, lead.next, <<87, 72, 69, 82, 69>>) IN
    IF ~word.ok THEN NoMatch
    ELSE LET gap == ws(input, word.next) IN
    IF ~gap.ok THEN NoMatch
    ELSE LET key == identifier(input, gap.next) IN
    IF ~key.ok THEN NoMatch
    ELSE LET equals == literal(input, wsz(input, key.next).next, <<61>>) IN
    IF ~equals.ok THEN NoMatch
    ELSE LET value == quoted_string(input, wsz(input, equals.next).next) IN
    IF ~value.ok THEN NoMatch
    ELSE [ok |-> TRUE, next |-> value.next,
          val |-> [key |-> key.val, value |-> value.val]]

\* rule select_statement: kw("SELECT") ws() select_clause() ws() kw("FROM")
\* ws() identifier() optional_where_clause()?
select_statement(input) ==
    LET select == kw(input, 1, <<83, 69, 76, 69, 67, 84>>) IN
    IF ~select.ok THEN NoMatch
    ELSE LET lead == ws(input, select.next) IN
    IF ~lead.ok THEN NoMatch
    ELSE LET clause == select_clause(input, lead.next)
             gap == ws(input, clause.next)
         IN
    IF ~gap.ok THEN NoMatch
    ELSE LET from == kw(input, gap.next, <<70, 82, 79, 77>>) IN
    IF ~from.ok THEN NoMatch
    ELSE LET blank == ws(input, from.next) IN
    IF ~blank.ok THEN NoMatch
    ELSE LET table == identifier(input, blank.next) IN
    IF ~table.ok THEN NoMatch
    ELSE LET where == optional_where_clause(input, table.next) IN
         [ok |-> TRUE,
          next |-> IF where.ok THEN where.next ELSE table.next,
          val |-> [select_clause |-> clause.val,
                   table |-> table.val,
                   where_clause |-> IF where.ok THEN <<where.val>> ELSE <<>>]]

\* parse_sql that takes the statement select_statement matched at the start
\* of the input, whatever follows it
parse_sql_prefix(input) ==
    LET matched == select_statement(input) IN
    IF matched.ok THEN [ok |-> TRUE, sql |-> matched.val] ELSE [ok |-> FALSE]

\* parse_sql: the public rule of a peg grammar matches the whole input, so
\* a statement followed by anything is a ParseError
parse_sql(input) ==
    LET matched == select_statement(input) IN
    IF matched.ok /\ matched.next = Len(input) + 1
    THEN [ok |-> TRUE, sql |-> matched.val]
    ELSE [ok |-> FALSE]

----------------------------------------------------------------------------
(* The statements handed to parse_sql, written out from their parts.       *)

RECURSIVE JoinWith(_, _)
JoinWith(texts, sep) ==
    IF Len(texts) = 0 THEN <<>>
    ELSE IF Len(texts) = 1 THEN texts[1]
    ELSE texts[1] \o sep \o JoinWith(Tail(texts), sep)

\* one / one, two / a_b, one, two / c1 / COUNT(*) / one(*)
StatementClauses ==
    {Columns(<<<<111, 110, 101>>>>), Columns(<<<<111, 110, 101>>, <<116, 119, 111>>>>),
     Columns(<<<<97, 95, 98>>, <<111, 110, 101>>, <<116, 119, 111>>>>), Columns(<<<<99, 49>>>>),
     FunctionCall(<<67, 79, 85, 78, 84>>), FunctionCall(<<111, 110, 101>>)}

\* the WHERE part: the keyword as written, the column, the operator (=, <,
\* !=, >=) with or without blanks around it, the literal and its delimiter
\* (' or ")
StatementFilters ==
    {<<>>} \cup
    {<<[word |-> word, key |-> <<107, 101, 121>>, op |-> op, blank |-> blank,
        quote |-> quote, value |-> value]>> :
        word \in {<<87, 72, 69, 82, 69>>, <<119, 72, 101, 82, 101>>},
        op \in {<<61>>, <<60>>, <<33, 61>>, <<62, 61>>},
        blank \in {<<32>>, <<>>},
        quote \in {39, 34},
        value \in {<<118, 97, 108, 117, 101>>, <<>>, <<97, 32, 61, 32, 98>>}}

\* what may follow: nothing, JOIN t, a comma join, ORDER BY in either case
StatementTails ==
    {<<>>, <<32, 74, 79, 73, 78, 32, 116>>, <<44, 32, 116>>, <<32, 79, 82, 68, 69, 82, 32, 66, 89, 32, 111, 110, 101>>, <<32, 111, 114, 100, 101, 114, 32, 98, 121, 32, 111, 110, 101>>}

StatementParts ==
    {[select |-> select, clause |-> clause, sep |-> sep, from |-> from,
      table |-> table, filter |-> filter, tail |-> tail] :
        select \in {<<83, 69, 76, 69, 67, 84>>, <<115, 101, 108, 101, 99, 116>>},
        clause \in StatementClauses,
        sep \in {<<44, 32>>, <<44>>},
        from \in {<<70, 82, 79, 77>>, <<102, 82, 111, 77>>},
        table \in {<<97, 112, 112, 108, 101, 115>>, <<116>>},
        filter \in StatementFilters,
        tail \in StatementTails}

\* the text of a statement
StatementText(s) ==
    s.select \o <<32>>
    \o (IF s.clause.kind = "Columns" THEN JoinWith(s.clause.columns, s.sep)
        ELSE s.clause.name \o <<40, 42, 41>>)
    \o <<32>> \o s.from \o <<32>> \o s.table
    \o (IF s.filter = <<>> THEN <<>>
        ELSE LET f == s.filter[1] IN
             <<32>> \o f.word \o <<32>> \o f.key \o f.blank \o f.op \o f.blank
             \o <<f.quote>> \o f.value \o <<f.quote>>)
    \o s.tail

InitSql ==
    /\ src \in StatementParts
    /\ arg = StatementText(src)
    /\ pc = "sql"
    /\ res = Idle
    /\ db = NoDatabase
    /\ query = Idle /\ idx_info = <<>> /\ fields = <<>> /\ records = <<>>
    /\ pos = 0 /\ out = <<>>

\* main: select_sql::parse_sql(query)
ParseSql ==
    /\ pc = "sql"
    /\ res' = parse_sql(arg)
    /\ pc' = "parsed_sql"
    /\ UNCHANGED <<db, query, idx_info, fields, records, pos, out, src, arg>>

SpecSql == InitSql /\ [][ParseSql]_vars

----------------------------------------------------------------------------
(* The SELECT parser against the statements.                               *)

\* a statement of the supported shape: columns or a function call, a table,
\* and with columns possibly WHERE key = 'text'; nothing after it
Supported(s) ==
    /\ s.tail = <<>>
    /\ s.filter # <<>> =>
          /\ s.clause.kind = "Columns"
          /\ s.filter[1].op = <<61>>
          /\ s.filter[1].quote = 39

\* the Sql a supported statement spells
Spelled(s) ==
    [select_clause |-> s.clause,
     table |-> s.table,
     where_clause |-> IF s.filter = <<>> THEN <<>>
                      ELSE <<[key |-> s.filter[1].key, value |-> s.filter[1].value]>>]

\* C12: every statement SELECT c1, ..., cn FROM t [WHERE k = 'text'] or
\* SELECT f(*) FROM t, its keywords in any letter case, parses, and to the
\* Sql of its columns in order (or of its function), its table and its
\* filter, which is None exactly when there is no WHERE part.
C12_SupportedStatementsParse ==
    (pc = "parsed_sql" /\ Supported(src)) =>
        /\ res.ok
        /\ res.sql = Spelled(src)

\* a join, an ORDER BY, an operator other than =, or a literal in double
\* quotes
Unsupported(s) ==
    \/ s.tail # <<>>
    \/ /\ s.filter # <<>>
       /\ s.filter[1].op # <<61>> \/ s.filter[1].quote = 34

\* C13: a statement with a join, an ORDER BY clause, a comparison other than
\* = or a literal in double quotes is a parse error: no Sql is returned for
\* it, in particular not the Sql of the part before the unsupported text.
C13_UnsupportedStatementsFail ==
    (pc = "parsed_sql" /\ Unsupported(src)) => ~res.ok

\* SELECT one, two FROM apples WHERE key = 'value' ORDER BY one: without
\* the ORDER BY it parses, with it it does not
C13_Witness ==
    /\ pc = "parsed_sql"
    /\ ~res.ok
    /\ src.clause.kind = "Columns" /\ Len(src.clause.columns) = 2
    /\ src.filter # <<>> /\ src.filter[1].op = <<61>> /\ src.filter[1].quote = 39
    /\ Len(src.tail) = 13
    /\ parse_sql(SubSeq(arg, 1, Len(arg) - Len(src.tail))).ok

----------------------------------------------------------------------------
(* The order of the index search inside an interior page.                  *)

Visited == {res.visits[k] : k \in 1..Len(res.visits)}

\* the cells of an interior index page whose key is above the value
CellsAbove(cells, value) ==
    {i \in 1..Len(cells) : StrLt(value, from_utf8_lossy(cells[i].payload[1]))}

\* C14: on every interior index page the search enters, once it reaches a
\* cell whose key is above the value it descends into that cell's left child
\* and into nothing else of the page after it: no left child of a later
\* cell, and not right_most_pointer, which is descended only when no cell
\* ended the loop early.
C14_NothingAfterEarlyExit ==
    (pc = "searched" /\ res.ok) =>
        \A pg \in Visited :
            db.pages[pg].type_byte = InteriorIndex =>
                LET cells == db.pages[pg].cells
                    above == CellsAbove(cells, arg)
                IN  above # {} =>
                       LET first == CHOOSE i \in above : \A j \in above : i <= j IN
                       /\ cells[first].left_child_page_no \in Visited
                       /\ \A j \in (first + 1)..Len(cells) :
                             cells[j].left_child_page_no \notin Visited
                       /\ db.pages[pg].rmp_bytes \notin Visited

----------------------------------------------------------------------------
(* The three traversals call by call: res holds the calls in progress.     *)
(* A frame is one activation: its page and the cell its loop stands at;    *)
(* cell n + 1 of a page of n cells is the call for right_most_pointer,     *)
(* cell n + 2 the return.                                                  *)

\* a recursive call: the caller will resume at cell resume
Descend(stack, child, resume) ==
    Append([stack EXCEPT ![Len(stack)].cell = resume], [page |-> child, cell |-> 1])

\* the loop of the running activation moves on without a call
Advance(stack, resume) == [stack EXCEPT ![Len(stack)].cell = resume]

\* the running activation returns
Unwind(stack) == SubSeq(stack, 1, Len(stack) - 1)

\* res after a step that leaves the stack as given
Walked(stack, child) ==
    [res EXCEPT !.stack = stack,
                !.entered = IF child = <<>> THEN @ ELSE @ \o child,
                !.deepest = IF Len(stack) > @ THEN Len(stack) ELSE @]

\* get_record_by_row_id with the recursive call's `return` left out: the
\* loop goes on after the call
LookupResumeNoReturn(n, i) == i + 1

\* get_record_by_row_id, where an activation resumes after its recursive
\* call from cell i of n: nowhere, the call is returned
LookupResume(n, i) == n + 2

\* parse_page, where the loop of an interior index page resumes after the
\* descent into the left child of cell i of n: `break` leads to the call for
\* right_most_pointer that follows the loop
SearchResume(n, i, value, key) == IF StrLt(value, key) THEN n + 1 ELSE i + 1

\* one step of get_them_records
WalkScan ==
    /\ pc = "walking" /\ res.walk = "scan"
    /\ LET frame == res.stack[Len(res.stack)]
           page_header == get_page_header(db.pages, frame.page)
       IN
       IF ~page_header.ok THEN pc' = "aborted" /\ res' = res
       ELSE
       LET cells == db.pages[frame.page].cells
           n == Len(cells)
           stack == IF page_header.page_type = InteriorTable /\ frame.cell <= n
                    THEN Descend(res.stack, cells[frame.cell].left_child_page_no,
                                 frame.cell + 1)
                    ELSE IF page_header.page_type = InteriorTable /\ frame.cell = n + 1
                    THEN Descend(res.stack, page_header.right_most_pointer[1], n + 2)
                    ELSE Unwind(res.stack)
       IN  /\ res' = Walked(stack, IF Len(stack) > Len(res.stack)
                                   THEN <<stack[Len(stack)].page>> ELSE <<>>)
           /\ pc' = IF stack = <<>> THEN "returned" ELSE "walking"
    /\ UNCHANGED <<db, query, idx_info, fields, records, pos, out, src, arg>>

\* one step of get_record_by_row_id: unreachable!() on a leaf without the
\* rowid and on a page of index type
WalkLookup ==
    /\ pc = "walking" /\ res.walk = "lookup"
    /\ LET frame == res.stack[Len(res.stack)]
           page_header == get_page_header(db.pages, frame.page)
       IN
       IF ~page_header.ok THEN pc' = "aborted" /\ res' = res
       ELSE
       LET cells == db.pages[frame.page].cells
           n == Len(cells)
       IN
       IF page_header.page_type = InteriorTable
       THEN LET stack ==
                    IF frame.cell <= n
                    THEN IF arg <= cells[frame.cell].rowid_key
                         THEN Descend(res.stack, cells[frame.cell].left_child_page_no,
                                      LookupResume(n, frame.cell))
                         ELSE Advance(res.stack, frame.cell + 1)
                    ELSE IF frame.cell = n + 1
                    THEN Descend(res.stack, page_header.right_most_pointer[1], n + 2)
                    ELSE Unwind(res.stack)
            IN  /\ res' = Walked(stack, IF Len(stack) > Len(res.stack)
                                        THEN <<stack[Len(stack)].page>> ELSE <<>>)
                /\ pc' = IF stack = <<>> THEN "returned" ELSE "walking"
       ELSE IF page_header.page_type = LeafTable /\ FirstCellWithKey(cells, arg) # 0
       THEN /\ res' = Walked(Unwind(res.stack), <<>>)
            /\ pc' = IF Len(res.stack) = 1 THEN "returned" ELSE "walking"
       ELSE pc' = "aborted" /\ res' = res
    /\ UNCHANGED <<db, query, idx_info, fields, records, pos, out, src, arg>>


\* one step of parse_page: a cell below the value is passed over, a rowid
\* the decoder rejects is a panic
WalkSearch ==
    /\ pc = "walking" /\ res.walk = "search"
    /\ LET frame == res.stack[Len(res.stack)]
           page_header == get_page_header(db.pages, frame.page)
       IN
       IF ~page_header.ok THEN pc' = "aborted" /\ res' = res
       ELSE
       LET cells == db.pages[frame.page].cells
           n == Len(cells)
       IN
       IF page_header.page_type = InteriorIndex /\ frame.cell <= n
       THEN LET record == cells[frame.cell].payload
                key == from_utf8_lossy(record[1])
            IN  IF StrLt(key, arg)
                THEN /\ res' = Walked(Advance(res.stack, frame.cell + 1), <<>>)
                     /\ pc' = "walking"
                ELSE IF arg = key /\ ~parse_24bit_be_twos_complement(record[2]).ok
                THEN pc' = "aborted" /\ res' = res
                ELSE /\ res' = Walked(Descend(res.stack,
                                              cells[frame.cell].left_child_page_no,
                                              SearchResume(n, frame.cell, arg, key)),
                                      <<cells[frame.cell].left_child_page_no>>)
                     /\ pc' = "walking"
       ELSE IF page_header.page_type = InteriorIndex /\ frame.cell = n + 1
       THEN /\ res' = Walked(Descend(res.stack, page_header.right_most_pointer[1], n + 2),
                             <<page_header.right_most_pointer[1]>>)
            /\ pc' = "walking"
       ELSE IF page_header.page_type = LeafIndex /\ ~LeafIndexLoop(cells, 1, arg).ok
       THEN pc' = "aborted" /\ res' = res
       ELSE /\ res' = Walked(Unwind(res.stack), <<>>)
            /\ pc' = IF Len(res.stack) = 1 THEN "returned" ELSE "walking"
    /\ UNCHANGED <<db, query, idx_info, fields, records, pos, out, src, arg>>

\* the table B-trees and index B-trees that are walked
WalkSources ==
    {s \in TreeSources :
        /\ s.rot = 0 /\ s.slack = 0
        /\ s.bad = 0 \/ s.bad \in DOMAIN TablePages(TreeRows(s), s.leaf_cap, s.fanout,
                                                  TableRoot, s.slack)
        /\ s.bad # 0 \/ s.bad_type = 0}
    \cup {s \in IndexSources : Len(s.entries) <= MaxWalkEntries}

IsIndexSource(s) == "entries" \in DOMAIN s

InitWalk ==
    /\ src \in WalkSources
    /\ db = [catalog |-> <<>>, schemas |-> <<>>,
             pages |-> IF IsIndexSource(src)
                       THEN IndexPages(src.entries, src.leaf_cap, src.inner_cap, TableRoot)
                       ELSE TreePagesOf(src)]
    /\ \E walk \in {"scan", "lookup", "search"} :
          /\ (walk = "search") = IsIndexSource(src)
          /\ res = [walk |-> walk, stack |-> <<[page |-> TableRoot, cell |-> 1]>>,
                    entered |-> <<TableRoot>>, deepest |-> 1]
          /\ arg \in CASE walk = "search" -> SearchValues
                       [] walk = "lookup" -> {TreeRowId(i) - below : i \in 1..src.n,
                                                                     below \in 0..1}
                       [] OTHER -> {Idle}
    /\ pc = "walking"
    /\ query = Idle /\ idx_info = <<>> /\ fields = <<>> /\ records = <<>>
    /\ pos = 0 /\ out = <<>>

NextWalk == WalkScan \/ WalkLookup \/ WalkSearch

\* the calls follow one another without a pause: no step waits on anything
SpecWalk == InitWalk /\ [][NextWalk]_vars /\ WF_vars(NextWalk)

\* the child-page pointers of a page: those of its cells and
\* right_most_pointer on a page of interior type written as one (a leaf
\* whose type byte was overwritten holds no pointer)
Pointers(pages, pg) ==
    IF pg \in DOMAIN pages /\ IsInterior(pages[pg].type_byte)
    THEN {pages[pg].cells[i].left_child_page_no :
             i \in {j \in 1..Len(pages[pg].cells) :
                      "left_child_page_no" \in DOMAIN pages[pg].cells[j]}}
         \cup (IF pages[pg].rmp_bytes = 0 THEN {} ELSE {pages[pg].rmp_bytes})
    ELSE {}

\* the height of the tree the pointers form under a page
RECURSIVE Height(_, _)
Height(pages, pg) ==
    LET below == {Height(pages, child) : child \in Pointers(pages, pg)}
    IN  1 + (IF below = {} THEN 0 ELSE CHOOSE h \in below : \A g \in below : g <= h)

\* C15: on a database whose page pointers form a tree, each traversal ends
\* (it returns or aborts), never has more calls in progress than the tree
\* is high, and the lookup by rowid enters one page per level: as many pages
\* as its deepest call.
C15_TraversalsEndWithinHeight ==
    /\ [](Len(res.stack) <= Height(db.pages, TableRoot))
    /\ [](res.walk = "lookup" => Len(res.entered) = res.deepest)
    /\ <>(pc \in {"returned", "aborted"})

\* a lookup that went down three levels and came back
C15_Witness ==
    /\ pc = "returned"
    /\ res.walk = "lookup"
    /\ Len(res.entered) = 3
    /\ Height(db.pages, TableRoot) = 3

----------------------------------------------------------------------------
(* Databases whose index disagrees with the table.                         *)

\* the key an out-of-date index entry holds in place of the stored country
OtherCountry(country) == IF country = <<97>> THEN <<98>> ELSE <<97>>

\* the entries of the index on country when the entry of the row with
\* rowid wrong was not kept up with the table (0: all are up to date)
StaleEntries(rows, wrong) ==
    SortEntries({[key |-> IF rows[i].rowid = wrong THEN OtherCountry(rows[i].country)
                          ELSE rows[i].country,
                  rowid |-> rows[i].rowid] : i \in 1..Len(rows)})

StaleSources ==
    {[rows |-> [i \in 1..Len(ids) |->
                   [rowid |-> ids[i], country |-> country[ids[i]], short |-> FALSE]],
      ddl |-> 1, leaf_cap |-> 1, catalog |-> catalog, wrong |-> wrong] :
        ids \in {SortRowIds(S) : S \in {T \in SUBSET RowIdPool : Cardinality(T) <= MaxRows}},
        country \in [RowIdPool -> Countries],
        wrong \in RowIdPool \cup {0},
        catalog \in 1..2}

StaleDatabase(s) ==
    [Database(s) EXCEPT
        !.pages = IF s.catalog = 1 THEN @
                  ELSE IndexPages(StaleEntries(s.rows, s.wrong), s.leaf_cap, 1,
                                  CountryIndexRoot) @@ @]

InitStale ==
    /\ src \in StaleSources
    /\ db = StaleDatabase(src)
    /\ query \in Queries
    /\ pc = "start"
    /\ idx_info = <<>>
    /\ fields = <<>>
    /\ records = <<>>
    /\ pos = 0
    /\ out = <<>>
    /\ arg = Idle
    /\ res = Idle

SpecStale == InitStale /\ [][Next]_vars

\* C16: in a column query with a filter (k, v) a line is printed only for a
\* row whose value for k (the rowid for the primary key, the stored column
\* otherwise) is v, on either path: a row the index led to whose column is
\* not v prints nothing.
C16_OnlyMatchingRowsPrinted ==
    [][(/\ query.select_clause.kind = "Columns"
        /\ query.where_clause # <<>>
        /\ out' # out) => Passes(RowOf(records[pos]))]_vars

\* the index led to two rows and only one of them was printed
C16_Witness ==
    /\ pc = "done"
    /\ idx_info # <<>>
    /\ src.wrong # 0
    /\ query.select_clause.kind = "Columns"
    /\ Len(records) = 2
    /\ \E n \in 1..2 : ~Passes(RowOf(records[n]))
    /\ Len(out) = 1

----------------------------------------------------------------------------
(* When the index search aborts.                                           *)

\* the entries whose key is byte-equal to the value and whose rowid is
\* stored in a width the decoder has no arm for
UndecodableMatches(entries, value) ==
    {i \in 1..Len(entries) :
        /\ entries[i].key = value
        /\ Len(StoredInt(entries[i].rowid)) \notin 1..3}

\* C17: the index search aborts exactly when some entry whose key equals the
\* value stores its rowid in a width other than 1, 2 or 3 bytes; the width
\* of the rowid of an entry with another key plays no part.
C17_AbortsOnUndecodableMatch ==
    pc = "searched" => (~res.ok) = (UndecodableMatches(src.entries, arg) # {})


----------------------------------------------------------------------------
(* C18: columns the table does not have.                                   *)

\* the columns a statement names: the filter column and the projected ones
NamedColumns(q) ==
    (IF q.where_clause = <<>> THEN {} ELSE {q.where_clause[1].key})
    \cup (IF q.select_clause.kind = "Columns"
          THEN {q.select_clause.columns[i] : i \in 1..Len(q.select_clause.columns)}
          ELSE {})

\* the columns of the table's CREATE TABLE statement
DdlNames == {Ddl(src.ddl).fields[i].name : i \in 1..Len(Ddl(src.ddl).fields)}

AbsentColumns == NamedColumns(query) \ DdlNames

\* process_query has returned or panicked
Ended == pc = "done" \/ Failed

\* a row has reached the evaluation of an absent column: the filter of the
\* scan has been applied to a scanned row (lines 459-468), or the loop has
\* taken a fetched row past its filter to the projection (lines 475-493)
RowReachedAbsentColumn ==
    \/ /\ query.where_clause # <<>>
       /\ query.where_clause[1].key \in AbsentColumns
       /\ idx_info = <<>>
       /\ pc \in {"fetched", "done", "failed_fetch", "failed_emit"}
       /\ src.rows # <<>>
    \/ /\ query.where_clause # <<>> => query.where_clause[1].key \notin AbsentColumns
       /\ query.select_clause.kind = "Columns"
       /\ \E n \in 1..(pos - 1) : n <= Len(records) /\ Passes(RowOf(records[n]))

\* C18: a query that names a column absent from the CREATE TABLE field list
\* of its table aborts exactly when a row reaches the evaluation of that
\* column; when none does, it completes and prints no row line.
C18_AbsentColumnAbortsOnlyWithARow ==
    (Ended /\ AbsentColumns # {}) =>
        /\ Failed <=> RowReachedAbsentColumn
        /\ ~RowReachedAbsentColumn =>
              /\ pc = "done"
              /\ query.select_clause.kind = "Columns" => out = <<>>

====
